---- MODULE Spec2Model ----
(***************************************************************************)
(* Query-time scan of an HNSW index (src/src/hnswscan.c): hnswbeginscan,   *)
(* hnswrescan, hnswgettuple, hnswendscan and the driver GetScanItems.      *)
(* SearchLayer, GetEntryPoint, EntryCandidate, HnswNormValue and the       *)
(* distance function live outside hnswscan.c; they are modelled from       *)
(* spec.md sections 3, 4.1, 4.2 and 6.                                     *)
(***************************************************************************)
EXTENDS Integers, Sequences, FiniteSets, TLC

\* ---- bounds of the model ------------------------------------------------
NumNodes == 3
MaxLevel == 1
MaxReach == 2
MaxTids == 2
MaxEf == 2
MaxCoord == 2
MaxEofs == 2

\* ---- program constants --------------------------------------------------
NULL == 0
InvalidBuffer == 0

Nodes == 1..NumNodes
Layers == 0..MaxLevel
Cursors == {1, 2}
Queries == 0..MaxCoord

VARIABLES
    entryPoint,       \* graph: entry element, NULL when the graph is empty
    level,            \* graph: element -> top layer
    neighbors,        \* graph: element -> layer -> set of elements
    heaptids,         \* graph: element -> list of heap tids (consumed from the back)
    hnsw_ef_search,   \* configuration: beam width at layer 0
    normprocinfo,     \* index: TRUE iff a normalization function is configured
    opaque,           \* cursor -> "unset" | "so" | "NULL"   (scan->opaque)
    buf,              \* cursor -> so->buf
    first,            \* cursor -> so->first
    w,                \* cursor -> so->w
    numberOfOrderBys, \* cursor -> scan->numberOfOrderBys
    orderByData,      \* cursor -> scan->orderByData (<<>> is the NULL pointer)
    xs_heaptid,       \* cursor -> scan->xs_heaptid
    pins,             \* cursor -> pins the buffer manager holds for it
    result,           \* cursor -> outcome of the latest call
    out,              \* cursor -> records returned since the latest rescan
    nsearch,          \* cursor -> runs of GetScanItems since the latest rescan
    calls,            \* cursor -> SearchLayer invocations since the latest rescan
    due,              \* cursor -> heap tids the result list's elements held when searched
    eofs,             \* cursor -> end-of-results returned since the latest rescan
    priorUse,         \* cursor -> TRUE iff an earlier scan of it returned a record
    tids0,            \* the heap tid lists of the graph before any scan
    ls                \* one Layer Search run step by step: its inputs and sets

graphVars == <<entryPoint, level, neighbors, heaptids>>
configVars == <<hnsw_ef_search, normprocinfo, tids0>>
scanVars == <<opaque, buf, first, w, numberOfOrderBys, orderByData, xs_heaptid>>
obsVars == <<pins, result, out, nsearch, calls, due, eofs, priorUse>>
layerVars == <<ls>>
vars == <<graphVars, configVars, scanVars, obsVars, layerVars>>

\* ---- small helpers ------------------------------------------------------
Last(s) == s[Len(s)]
\* a deletion at the wrong end of the list
FrontMut(s) == SubSeq(s, 2, Len(s))
Front(s) == SubSeq(s, 1, Len(s) - 1)
Range(s) == {s[i] : i \in DOMAIN s}
MinOf(S) == CHOOSE x \in S : \A y \in S : x <= y
MaxNat(a, b) == IF a >= b THEN a ELSE b

\* ---- graph storage (spec.md section 3 and 6) ----------------------------
\* the vector of an element: a point on a line
vec == [n \in Nodes |-> n]
\* the index page holding an element: two elements per page
blkno == [n \in Nodes |-> (n + 1) \div 2]
Blocks == {blkno[n] : n \in Nodes}

\* distance(vectorA, vectorB)
Distance(a, b) == IF a >= b THEN a - b ELSE b - a

\* normalize(vector): fails on the zero vector, else the unit vector
HnswNormOk(v) == v # 0
HnswNormValue(v) == 1

\* a Candidate: graph element and its distance to the query
EntryCandidate(e, q) == [element |-> e, distance |-> Distance(vec[e], q)]

\* total order of candidates: distance, ties by element identifier
Better(a, b) ==
    \/ a.distance < b.distance
    \/ a.distance = b.distance /\ a.element < b.element
Closest(S) == CHOOSE a \in S : \A b \in S \ {a} : Better(a, b)
Furthest(S) == CHOOSE a \in S : \A b \in S \ {a} : Better(b, a)

RECURSIVE SortBestFirst(_)
SortBestFirst(S) ==
    IF S = {} THEN <<>>
    ELSE LET a == Closest(S) IN <<a>> \o SortBestFirst(S \ {a})

\* ---- Layer Search (spec.md section 4.1) ---------------------------------
\* state of one search: v visited elements, C frontier members not yet
\* expanded, W the bounded candidate set
InitLayer(ep) ==
    [v |-> {c.element : c \in Range(ep)}, C |-> Range(ep), W |-> Range(ep)]

\* step 2/4: no frontier member left, or the closest one is worse than the
\* worst kept candidate while the candidate set is full
LayerDone(st, ef) ==
    \/ st.C = {}
    \/ /\ Closest(st.C).distance > Furthest(st.W).distance
       /\ Cardinality(st.W) >= ef

\* step 3 without the test of the visited set
AddNeighborRevisit(st, e, q, ef) ==
    LET cand == EntryCandidate(e, q)
        seen == [st EXCEPT !.v = @ \cup {e}]
    IN IF Cardinality(st.W) < ef
          \/ cand.distance < Furthest(st.W).distance
       THEN LET W2 == st.W \cup {cand}
            IN [seen EXCEPT !.C = @ \cup {cand},
                            !.W = IF Cardinality(W2) > ef
                                  THEN W2 \ {Furthest(W2)} ELSE W2]
       ELSE seen

\* step 3 for one neighbor e of the expanded element
AddNeighbor(st, e, q, ef) ==
    IF e \in st.v THEN st
    ELSE LET cand == EntryCandidate(e, q)
             seen == [st EXCEPT !.v = @ \cup {e}]
         IN IF Cardinality(st.W) < ef
               \/ cand.distance < Furthest(st.W).distance
            THEN LET W2 == st.W \cup {cand}
                 IN [seen EXCEPT !.C = @ \cup {cand},
                                 !.W = IF Cardinality(W2) > ef
                                       THEN W2 \ {Furthest(W2)} ELSE W2]
            ELSE seen

RECURSIVE AddNeighbors(_, _, _, _)
AddNeighbors(st, S, q, ef) ==
    IF S = {} THEN st
    ELSE LET e == MinOf(S)
         IN AddNeighbors(AddNeighbor(st, e, q, ef), S \ {e}, q, ef)

\* steps 2-3: expand the closest frontier member
LayerStep(st, q, ef, lc) ==
    LET c == Closest(st.C)
    IN AddNeighbors([st EXCEPT !.C = @ \ {c}], neighbors[c.element][lc], q, ef)

RECURSIVE LayerLoop(_, _, _, _)
LayerLoop(st, q, ef, lc) ==
    IF LayerDone(st, ef) THEN st ELSE LayerLoop(LayerStep(st, q, ef, lc), q, ef, lc)

\* step 4: the candidate set sorted best-first, truncated to ef
SearchLayer(q, ep, ef, lc) ==
    LET sorted == SortBestFirst(LayerLoop(InitLayer(ep), q, ef, lc).W)
    IN SubSeq(sorted, 1, IF Len(sorted) < ef THEN Len(sorted) ELSE ef)

\* ---- Layer Search, one expansion at a time ---------------------------------
IdleLayer ==
    [pc |-> "idle", q |-> 0, ef |-> 1, lc |-> 0, ep |-> <<>>,
     st |-> InitLayer(<<>>), expanded |-> {}, res |-> <<>>]

\* the seed frontiers of layer lc for query q: the candidates of any set of
\* elements of that layer
Seeds(q, lc) ==
    {SortBestFirst({EntryCandidate(n, q) : n \in S}) :
        S \in SUBSET (IF entryPoint = NULL THEN {}
                      ELSE {n \in Nodes : level[n] >= lc})}

\* step 1
LayerStart(q, ep, ef, lc) ==
    /\ ls.pc = "idle"
    /\ ls' = [pc |-> "run", q |-> q, ef |-> ef, lc |-> lc, ep |-> ep,
              st |-> InitLayer(ep), expanded |-> {}, res |-> <<>>]
    /\ UNCHANGED <<graphVars, configVars, scanVars, obsVars>>

\* steps 2-3: one pass of the loop
LayerExpand ==
    /\ ls.pc = "run"
    /\ ~LayerDone(ls.st, ls.ef)
    /\ ls' = [ls EXCEPT !.st = LayerStep(ls.st, ls.q, ls.ef, ls.lc),
                        !.expanded = @ \cup {Closest(ls.st.C).element}]
    /\ UNCHANGED <<graphVars, configVars, scanVars, obsVars>>

\* step 4 without the truncation to ef
LayerFinishAll ==
    /\ ls.pc = "run"
    /\ LayerDone(ls.st, ls.ef) = TRUE
    /\ ls' = [ls EXCEPT !.pc = "done", !.res = SortBestFirst(ls.st.W)]
    /\ UNCHANGED <<graphVars, configVars, scanVars, obsVars>>

\* step 4: the loop has ended, the list is returned
LayerFinish ==
    /\ ls.pc = "run"
    /\ LayerDone(ls.st, ls.ef) = TRUE
    /\ ls' = [ls EXCEPT !.pc = "done",
                        !.res = LET sorted == SortBestFirst(ls.st.W)
                                IN SubSeq(sorted, 1,
                                     IF Len(sorted) < ls.ef THEN Len(sorted) ELSE ls.ef)]
    /\ UNCHANGED <<graphVars, configVars, scanVars, obsVars>>

\* ---- Query Driver (hnswscan.c, GetScanItems) -----------------------------
\* the loop over the layers entryPoint->level .. 1, each searched with ef = 1
RECURSIVE Descend(_, _, _)
Descend(q, ep, lc) ==
    IF lc >= 1 THEN Descend(q, SearchLayer(q, ep, 1, lc), lc - 1) ELSE ep

\* a driver that widens the layer-0 search by one candidate
GetScanItemsWide(wOld, q) ==
    IF entryPoint = NULL THEN wOld
    ELSE LET ep == <<EntryCandidate(entryPoint, q)>>
         IN SearchLayer(q, Descend(q, ep, level[entryPoint]), hnsw_ef_search + 1, 0)

\* a loop that stops above layer 1
RECURSIVE DescendCallsShort(_, _, _)
DescendCallsShort(q, ep, lc) ==
    IF lc > 1
    THEN LET res == SearchLayer(q, ep, 1, lc)
         IN <<[lc |-> lc, ef |-> 1, ep |-> ep, w |-> res]>> \o DescendCallsShort(q, res, lc - 1)
    ELSE <<>>

\* the SearchLayer invocations of the loop from layer lc down to layer 1, ep
\* being the frontier it starts with: layer, ef, frontier handed in, list returned
RECURSIVE DescendCalls(_, _, _)
DescendCalls(q, ep, lc) ==
    IF lc >= 1
    THEN LET res == SearchLayer(q, ep, 1, lc)
         IN <<[lc |-> lc, ef |-> 1, ep |-> ep, w |-> res]>> \o DescendCalls(q, res, lc - 1)
    ELSE <<>>

\* a driver without the test for an empty graph: it starts at the first element
ScanCallsNoCheck(q) ==
    LET e == IF entryPoint = NULL THEN MinOf(Nodes) ELSE entryPoint
        ep0 == <<EntryCandidate(e, q)>>
        down == DescendCalls(q, ep0, level[e])
        ep == IF Len(down) = 0 THEN ep0 ELSE Last(down).w
    IN Append(down, [lc |-> 0, ef |-> hnsw_ef_search, ep |-> ep,
                     w |-> SearchLayer(q, ep, hnsw_ef_search, 0)])

\* the SearchLayer invocations of GetScanItems(scan, q), in order: none on an
\* empty graph, else the loop's and the one at layer 0
ScanCalls(q) ==
    IF entryPoint = NULL THEN <<>>
    ELSE LET ep0 == <<EntryCandidate(entryPoint, q)>>
             down == DescendCalls(q, ep0, level[entryPoint])
             ep == IF Len(down) = 0 THEN ep0 ELSE Last(down).w
         IN Append(down, [lc |-> 0, ef |-> hnsw_ef_search, ep |-> ep,
                          w |-> SearchLayer(q, ep, hnsw_ef_search, 0)])

\* the value of so->w after GetScanItems(scan, q), wOld being its value before
GetScanItems(wOld, q) ==
    LET cs == ScanCalls(q)
    IN IF Len(cs) = 0 THEN wOld ELSE Last(cs).w

\* ---- buffer pins ----------------------------------------------------------
NoPins == [held |-> [b \in Blocks |-> 0], acquired |-> 0, released |-> 0, peak |-> 0]
Held(p) == p.acquired - p.released

ReleaseBuffer(p, b) ==
    [p EXCEPT !.held[b] = @ - 1, !.released = @ + 1]
ReadBuffer(p, b) ==
    [p EXCEPT !.held[b] = @ + 1, !.acquired = @ + 1,
              !.peak = MaxNat(@, p.acquired + 1 - p.released)]

\* a delivery that pins the new page before it lets go of the old one
DeliverPinLate(p, oldbuf, blk) ==
    LET p1 == ReadBuffer(p, blk)
    IN IF oldbuf # InvalidBuffer THEN ReleaseBuffer(p1, oldbuf) ELSE p1

\* a delivery that keeps the pin it holds instead of moving it
DeliverPinStale(p, oldbuf, blk) ==
    IF oldbuf # InvalidBuffer THEN p ELSE ReadBuffer(p, blk)

\* hnswgettuple: release the pin held, then pin the page of the new item
DeliverPin(p, oldbuf, blk) ==
    LET p1 == IF oldbuf # InvalidBuffer THEN ReleaseBuffer(p, oldbuf) ELSE p
    IN ReadBuffer(p1, blk)

\* an end of scan that forgets the pin
EndScanPinKept(p, b) == p

\* hnswendscan: release the pin if one is held
EndScanPin(p, b) ==
    IF b # InvalidBuffer THEN ReleaseBuffer(p, b) ELSE p

\* ---- scan keys ------------------------------------------------------------
ScanKeys ==
    {[sk_flags |-> {"SK_ISNULL"}, sk_argument |-> 0]}
    \cup {[sk_flags |-> {}, sk_argument |-> v] : v \in Queries}

\* a first call that treats a missing ordering like a null one
OrderCheckLax(od) ==
    IF od = <<>> THEN "false"
    ELSE IF "SK_ISNULL" \in od[1].sk_flags THEN "false"
    ELSE IF normprocinfo /\ ~HnswNormOk(od[1].sk_argument) THEN "false"
    ELSE "go"

\* a first call without the null test on the ordering value
OrderCheckNoNull(od) ==
    IF od = <<>> THEN "ERROR"
    ELSE IF normprocinfo /\ ~HnswNormOk(od[1].sk_argument) THEN "false"
    ELSE "go"

\* hnswgettuple, first call: "ERROR" without ordering, "false" for a null
\* ordering value or a failed normalization, else "go" on to the search
OrderCheck(od) ==
    IF od = <<>> THEN "ERROR"
    ELSE IF "SK_ISNULL" \in od[1].sk_flags THEN "false"
    ELSE IF normprocinfo /\ ~HnswNormOk(od[1].sk_argument) THEN "false"
    ELSE "go"

\* the query value handed to GetScanItems
QueryValue(od) ==
    IF normprocinfo THEN HnswNormValue(od[1].sk_argument) ELSE od[1].sk_argument

\* a first call that leaves the scan marked not started
FirstAfterSearchKept == TRUE

\* hnswgettuple: so->first after the search has run
FirstAfterSearch == FALSE

\* a loop that gives up at the first candidate without heap tids
SkipEmptyStop(wl, tids) ==
    IF Len(wl) > 0 /\ Len(tids[Last(wl).element]) = 0 THEN <<>> ELSE wl

\* hnswgettuple, head of the while loop: drop the candidates at the tail of
\* the list whose element has no heap tid left
RECURSIVE SkipEmpty(_, _)
SkipEmpty(wl, tids) ==
    IF Len(wl) > 0 /\ Len(tids[Last(wl).element]) = 0
    THEN SkipEmpty(Front(wl), tids)
    ELSE wl

\* the heap tids the elements of the list wl hold
RECURSIVE TidCount(_, _)
TidCount(wl, tids) ==
    IF Len(wl) = 0 THEN 0
    ELSE Len(tids[Last(wl).element]) + TidCount(Front(wl), tids)

\* ---- initial state --------------------------------------------------------
\* neighbor sets: on every layer both elements reach, elements whose vectors
\* are at most r apart are linked
Links(lv, r) ==
    [n \in Nodes |-> [l \in Layers |->
        {m \in Nodes \ {n} : /\ lv[m] >= l /\ lv[n] >= l
                             /\ Distance(vec[m], vec[n]) <= r}]]

\* heap tid lists of 0..MaxTids tids, heap tids are numbered over the graph
Tid(n, k) == (n - 1) * MaxTids + k
TidLists(s) ==
    [n \in Nodes |-> [k \in 1..((n + s) % (MaxTids + 1)) |-> Tid(n, k)]]

\* levels of a graph entered at e on layer top: the other elements are spread
\* over the layers 0..top
Levels(e, top) ==
    [n \in Nodes |-> IF n = e THEN top ELSE n % (top + 1)]

InitGraph ==
    /\ entryPoint \in {NULL} \cup Nodes
    /\ IF entryPoint = NULL
       THEN /\ level = [n \in Nodes |-> 0]
            /\ neighbors = [n \in Nodes |-> [l \in Layers |-> {}]]
            /\ heaptids = [n \in Nodes |-> <<>>]
       ELSE /\ \E top \in Layers : level = Levels(entryPoint, top)
            /\ \E r \in 1..MaxReach : neighbors = Links(level, r)
            /\ \E s \in 0..MaxTids : heaptids = TidLists(s)
    /\ tids0 = heaptids

InitScans ==
    /\ opaque = [c \in Cursors |-> "unset"]
    /\ buf = [c \in Cursors |-> InvalidBuffer]
    /\ first = [c \in Cursors |-> TRUE]
    /\ w = [c \in Cursors |-> <<>>]
    /\ numberOfOrderBys = [c \in Cursors |-> 0]
    /\ orderByData = [c \in Cursors |-> <<>>]
    /\ xs_heaptid = [c \in Cursors |-> 0]
    /\ pins = [c \in Cursors |-> NoPins]
    /\ result = [c \in Cursors |-> "none"]
    /\ out = [c \in Cursors |-> <<>>]
    /\ nsearch = [c \in Cursors |-> 0]
    /\ calls = [c \in Cursors |-> <<>>]
    /\ due = [c \in Cursors |-> 0]
    /\ eofs = [c \in Cursors |-> 0]
    /\ priorUse = [c \in Cursors |-> FALSE]

Init ==
    /\ InitGraph
    /\ hnsw_ef_search \in 1..MaxEf
    /\ normprocinfo \in BOOLEAN
    /\ InitScans
    /\ ls = IdleLayer

\* ---- operations of the access method ------------------------------------
\* hnswbeginscan: the scan descriptor comes with norderbys ordering keys whose
\* content is not initialized (key) until the first rescan
hnswbeginscan(c, norderbys, key) ==
    /\ opaque[c] = "unset"
    /\ opaque' = [opaque EXCEPT ![c] = "so"]
    /\ buf' = [buf EXCEPT ![c] = InvalidBuffer]
    /\ first' = [first EXCEPT ![c] = TRUE]
    /\ w' = [w EXCEPT ![c] = <<>>]
    /\ numberOfOrderBys' = [numberOfOrderBys EXCEPT ![c] = norderbys]
    /\ orderByData' = [orderByData EXCEPT ![c] = IF norderbys > 0 THEN <<key>> ELSE <<>>]
    /\ result' = [result EXCEPT ![c] = "begin"]
    /\ UNCHANGED <<graphVars, configVars, layerVars, xs_heaptid, pins, out, nsearch, calls, due, eofs, priorUse>>

\* a rescan that keeps the old result list
hnswrescanKeepW(c, orderbys) ==
    /\ opaque[c] = "so"
    /\ first' = [first EXCEPT ![c] = TRUE]
    /\ orderByData' = [orderByData EXCEPT ![c] =
            IF orderbys # <<>> /\ numberOfOrderBys[c] > 0 THEN orderbys ELSE @]
    /\ result' = [result EXCEPT ![c] = "rescan"]
    /\ out' = [out EXCEPT ![c] = <<>>]
    /\ nsearch' = [nsearch EXCEPT ![c] = 0]
    /\ calls' = [calls EXCEPT ![c] = <<>>]
    /\ due' = [due EXCEPT ![c] = 0]
    /\ eofs' = [eofs EXCEPT ![c] = 0]
    /\ priorUse' = [priorUse EXCEPT ![c] = @ \/ out[c] # <<>>]
    /\ UNCHANGED <<graphVars, configVars, layerVars, opaque, buf, w, numberOfOrderBys, xs_heaptid, pins>>

\* hnswrescan: orderbys is <<>> (no new keys) or <<key>>
hnswrescan(c, orderbys) ==
    /\ opaque[c] = "so"
    /\ first' = [first EXCEPT ![c] = TRUE]
    /\ w' = [w EXCEPT ![c] = <<>>]
    /\ orderByData' = [orderByData EXCEPT ![c] =
            IF orderbys # <<>> /\ numberOfOrderBys[c] > 0 THEN orderbys ELSE @]
    /\ result' = [result EXCEPT ![c] = "rescan"]
    /\ out' = [out EXCEPT ![c] = <<>>]
    /\ nsearch' = [nsearch EXCEPT ![c] = 0]
    /\ calls' = [calls EXCEPT ![c] = <<>>]
    /\ due' = [due EXCEPT ![c] = 0]
    /\ eofs' = [eofs EXCEPT ![c] = 0]
    /\ priorUse' = [priorUse EXCEPT ![c] = @ \/ out[c] # <<>>]
    /\ UNCHANGED <<graphVars, configVars, layerVars, opaque, buf, numberOfOrderBys, xs_heaptid, pins>>

\* hnswgettuple, the call fails or returns false before the search
GetTupleEarly(c, chk) ==
    /\ result' = [result EXCEPT ![c] = chk]
    /\ eofs' = [eofs EXCEPT ![c] = IF chk = "false" THEN @ + 1 ELSE @]
    /\ UNCHANGED <<graphVars, configVars, layerVars, scanVars, pins, out, nsearch, calls, due, priorUse>>

\* hnswgettuple, the search (on the first call) and the while loop
GetTupleScan(c) ==
    LET w1 == IF first[c] THEN GetScanItems(w[c], QueryValue(orderByData[c])) ELSE w[c]
        w2 == SkipEmpty(w1, heaptids)
    IN /\ first' = [first EXCEPT ![c] = IF first[c] THEN FirstAfterSearch ELSE @]
       /\ nsearch' = [nsearch EXCEPT ![c] = IF first[c] THEN @ + 1 ELSE @]
       /\ calls' = [calls EXCEPT ![c] =
                IF first[c] THEN @ \o ScanCalls(QueryValue(orderByData[c])) ELSE @]
       /\ due' = [due EXCEPT ![c] = IF first[c] THEN TidCount(w1, heaptids) ELSE @]
       /\ w' = [w EXCEPT ![c] = w2]
       /\ IF Len(w2) > 0
          THEN LET hc == Last(w2)
                   tid == Last(heaptids[hc.element])
                   indexblkno == blkno[hc.element]
               IN /\ heaptids' = [heaptids EXCEPT ![hc.element] = Front(@)]
                  /\ xs_heaptid' = [xs_heaptid EXCEPT ![c] = tid]
                  /\ pins' = [pins EXCEPT ![c] = DeliverPin(@, buf[c], indexblkno)]
                  /\ buf' = [buf EXCEPT ![c] = indexblkno]
                  /\ out' = [out EXCEPT ![c] = Append(@,
                        [tid |-> tid, element |-> hc.element, distance |-> hc.distance])]
                  /\ result' = [result EXCEPT ![c] = "true"]
                  /\ UNCHANGED eofs
          ELSE /\ result' = [result EXCEPT ![c] = "false"]
               /\ eofs' = [eofs EXCEPT ![c] = @ + 1]
               /\ UNCHANGED <<heaptids, xs_heaptid, pins, buf, out>>
       /\ UNCHANGED <<entryPoint, level, neighbors, configVars, layerVars, opaque,
                      numberOfOrderBys, orderByData, priorUse>>

\* hnswgettuple; the caller asks at most MaxEofs times past the end
hnswgettuple(c) ==
    /\ opaque[c] = "so"
    /\ eofs[c] < MaxEofs
    /\ LET chk == IF first[c] THEN OrderCheck(orderByData[c]) ELSE "go"
       IN IF chk = "go" THEN GetTupleScan(c) ELSE GetTupleEarly(c, chk)

\* hnswendscan on an open scan
hnswendscan(c) ==
    /\ opaque[c] = "so"
    /\ pins' = [pins EXCEPT ![c] = EndScanPin(@, buf[c])]
    /\ opaque' = [opaque EXCEPT ![c] = "NULL"]
    /\ buf' = [buf EXCEPT ![c] = InvalidBuffer]
    /\ first' = [first EXCEPT ![c] = TRUE]
    /\ w' = [w EXCEPT ![c] = <<>>]
    /\ result' = [result EXCEPT ![c] = "end"]
    /\ UNCHANGED <<graphVars, configVars, layerVars, numberOfOrderBys, orderByData, xs_heaptid,
                   out, nsearch, calls, due, eofs, priorUse>>

\* hnswendscan on a scan already ended: so is scan->opaque = NULL and so->buf
\* reads through it. The read traps (crash), or yields a value that is no pin
\* of this scan and ReleaseBuffer rejects it (ERROR).
hnswendscanAgain(c, outcome) ==
    /\ opaque[c] = "NULL"
    /\ result' = [result EXCEPT ![c] = outcome]
    /\ UNCHANGED <<graphVars, configVars, layerVars, scanVars, pins, out, nsearch, calls, due, eofs, priorUse>>

\* the calls the executor makes on scan c: amrescan comes before the first
\* amgettuple and hands over the scan keys; later rescans may pass none
Step(c) ==
    \/ \E n \in {0, 1}, key \in ScanKeys : hnswbeginscan(c, n, key)
    \/ \E ob \in (IF result[c] = "begin" THEN {} ELSE {<<>>})
                 \cup {<<k>> : k \in ScanKeys} : hnswrescan(c, ob)
    \/ result[c] # "begin" /\ hnswgettuple(c)
    \/ hnswendscan(c)
    \/ \E outcome \in {"crash", "ERROR"} : hnswendscanAgain(c, outcome)

\* one scan
Next == Step(1)
Spec == Init /\ [][Next]_vars

\* two scans of the same graph, interleaved call by call; the graph is flat
\* and entered at its first element
Init2 ==
    /\ Init
    /\ entryPoint = 1
    /\ level = [n \in Nodes |-> 0]
    /\ hnsw_ef_search = MaxEf
    /\ ~normprocinfo
Next2 == \E c \in Cursors : Step(c)
Spec2 == Init2 /\ [][Next2]_vars

\* Layer Search alone, one search on any layer, query, seed frontier and ef;
\* a search once started runs to its end
InitLayers ==
    /\ Init
    /\ ~normprocinfo
    /\ hnsw_ef_search = MaxEf
    /\ heaptids \in {TidLists(0), [n \in Nodes |-> <<>>]}
NextLayers ==
    \/ /\ ls.pc = "idle"
       /\ \E q \in Queries, ef \in 1..MaxEf, lc \in Layers :
            \E ep \in Seeds(q, lc) : LayerStart(q, ep, ef, lc)
    \/ LayerExpand
    \/ LayerFinish
SpecLayers ==
    /\ InitLayers /\ [][NextLayers]_vars
    /\ WF_vars(LayerExpand) /\ WF_vars(LayerFinish)

\* ---- what a scan has returned --------------------------------------------
OutNodes(c) == {out[c][i].element : i \in DOMAIN out[c]}
OutTids(c) == [i \in DOMAIN out[c] |-> out[c][i].tid]
AnyRescan(c) == \E ob \in {<<>>} \cup {<<k>> : k \in ScanKeys} : hnswrescan(c, ob)
\* the scan of c ran its search and has returned end-of-results
Exhausted(c) == opaque[c] = "so" /\ ~first[c] /\ result[c] = "false"

RECURSIVE Reverse(_)
Reverse(s) == IF Len(s) = 0 THEN <<>> ELSE <<Last(s)>> \o Reverse(Front(s))

\* the heap tids a scan of result list wl returns, tail first, when the
\* elements hold the tid lists tids
RECURSIVE DrainAll(_, _)
DrainAll(wl, tids) ==
    IF Len(wl) = 0 THEN <<>>
    ELSE Reverse(tids[Last(wl).element]) \o DrainAll(Front(wl), tids)

\* the heap tids a freshly opened cursor returns for query q on the graph as
\* it was before any scan
FreshAnswer(q) == DrainAll(GetScanItems(<<>>, q), tids0)

\* ---- C1 -------------------------------------------------------------------
\* C1: the records one scan returns come best distance first: a record
\* returned earlier is never further from the query than one returned later.
C1_BestFirst ==
    \A c \in Cursors : \A i, j \in DOMAIN out[c] :
        i < j => out[c][i].distance <= out[c][j].distance

\* ---- C2 -------------------------------------------------------------------
\* C2: between two rescans the returned records belong to at most
\* hnsw_ef_search distinct elements, and the result list never holds more
\* than hnsw_ef_search candidates.
C2_AtMostEf ==
    \A c \in Cursors :
        /\ Cardinality(OutNodes(c)) <= hnsw_ef_search
        /\ Len(w[c]) <= hnsw_ef_search

\* a drained scan that returned records of hnsw_ef_search elements while
\* another element still holds heap tids
C2_Witness ==
    /\ Exhausted(1)
    /\ Cardinality(OutNodes(1)) = hnsw_ef_search
    /\ \E n \in Nodes \ OutNodes(1) : heaptids[n] # <<>>

\* ---- C3 -------------------------------------------------------------------
\* C3: a cursor holds at most one pin, the one so->buf names, at every moment
\* of every call: the pin held is released before the next one is acquired.
C3_OnePin ==
    \A c \in Cursors :
        /\ pins[c].peak <= 1
        /\ Held(pins[c]) <= 1
        /\ \A b \in Blocks : pins[c].held[b] = IF buf[c] = b THEN 1 ELSE 0

\* a record was delivered while the pin of the previous record was held
C3_Witness ==
    \E c \in Cursors :
        /\ opaque[c] = "so" /\ Len(out[c]) >= 2
        /\ pins[c].released >= 1 /\ Held(pins[c]) = 1

\* ---- C4 -------------------------------------------------------------------
\* C4: once hnswendscan has run, every pin the cursor acquired has been
\* released, wherever the scan stopped.
C4_NoPinLeak ==
    \A c \in Cursors :
        opaque[c] = "NULL" =>
            /\ pins[c].acquired = pins[c].released
            /\ \A b \in Blocks : pins[c].held[b] = 0

\* a scan ended before exhaustion, its last record still pinned until then
C4_Witness ==
    \E c \in Cursors :
        /\ opaque[c] = "NULL" /\ result[c] = "end"
        /\ pins[c].acquired >= 1 /\ eofs[c] = 0 /\ out[c] # <<>>

\* ---- C5 -------------------------------------------------------------------
\* C5 (as claimed): a rescan of a cursor that holds a pin releases it: after
\* the rescan no pin is held, the result list is empty, the scan not started.
C5_RescanReleasesPin ==
    [][\A c \in Cursors :
        (AnyRescan(c) /\ buf[c] # InvalidBuffer) =>
            /\ buf'[c] = InvalidBuffer /\ Held(pins'[c]) = 0
            /\ w'[c] = <<>> /\ first'[c]]_vars

\* C5 (amended): a rescan leaves the pin as it is (a held pin stays held,
\* on the same page), empties the result list and marks the scan not started.
C5_RescanKeepsPin ==
    [][\A c \in Cursors :
        AnyRescan(c) =>
            /\ buf'[c] = buf[c] /\ pins'[c] = pins[c]
            /\ w'[c] = <<>> /\ first'[c]]_vars

\* a rescan has just run on a cursor that holds a pin
C5_Witness ==
    \E c \in Cursors :
        /\ result[c] = "rescan" /\ buf[c] # InvalidBuffer /\ Held(pins[c]) = 1
        /\ w[c] = <<>> /\ first[c] /\ priorUse[c]

\* ---- C6 -------------------------------------------------------------------
\* C6: a scan run to exhaustion, after whatever earlier scans of the cursor,
\* returns exactly the records a freshly opened cursor returns for its query.
C6_RescanAsFresh ==
    \A c \in Cursors :
        Exhausted(c) => OutTids(c) = FreshAnswer(QueryValue(orderByData[c]))

\* ---- C7 -------------------------------------------------------------------
\* C7: no call of either cursor changes the entry point, the neighbor sets or
\* the heap tid lists of the graph, and a cursor's (first) scan run to
\* exhaustion returns the records it returns when it runs alone.
C7_NoInterference ==
    /\ [][/\ entryPoint' = entryPoint /\ level' = level
          /\ neighbors' = neighbors /\ heaptids' = heaptids]_vars
    /\ [](\A c \in Cursors :
            (Exhausted(c) /\ ~priorUse[c]) =>
                OutTids(c) = FreshAnswer(QueryValue(orderByData[c])))

\* ---- C8 -------------------------------------------------------------------
\* C8: after hnswgettuple has returned end-of-results, a further call before
\* the next rescan returns end-of-results again, runs no search and leaves
\* the pin, the empty result list and the graph as they are.
C8_NextAfterEnd ==
    [][\A c \in Cursors :
        (result[c] = "false" /\ hnswgettuple(c)) =>
            /\ result'[c] = "false"
            /\ nsearch'[c] = nsearch[c]
            /\ buf'[c] = buf[c] /\ pins'[c] = pins[c]
            /\ w[c] = <<>> /\ w'[c] = <<>>
            /\ first'[c] = first[c]
            /\ xs_heaptid'[c] = xs_heaptid[c] /\ heaptids' = heaptids]_vars

\* a scan that returned records, then end-of-results more than once
C8_Witness ==
    \E c \in Cursors :
        /\ Exhausted(c) /\ eofs[c] >= 2 /\ out[c] # <<>>
        /\ buf[c] # InvalidBuffer

\* ---- C9 -------------------------------------------------------------------
\* C9: hnswendscan on a cursor already closed is a no-op: it returns as the
\* first call did, without an error.
C9_CloseTwice ==
    \A c \in Cursors : opaque[c] = "NULL" => result[c] = "end"

\* ---- C10 ------------------------------------------------------------------
\* C10: without an ordering key the first hnswgettuple of a scan raises an
\* error before any search, and leaves the scan not started, the result list
\* empty, the pins and the graph untouched.
C10_MissingOrder ==
    [][\A c \in Cursors :
        (first[c] /\ orderByData[c] = <<>> /\ hnswgettuple(c)) =>
            /\ result'[c] = "ERROR"
            /\ first'[c] /\ w[c] = <<>> /\ w'[c] = <<>>
            /\ nsearch'[c] = nsearch[c]
            /\ buf'[c] = buf[c] /\ pins'[c] = pins[c]
            /\ heaptids' = heaptids]_vars

\* a first call has failed for want of an ordering key
C10_Witness ==
    \E c \in Cursors :
        /\ result[c] = "ERROR" /\ orderByData[c] = <<>>
        /\ first[c] /\ w[c] = <<>> /\ nsearch[c] = 0 /\ Held(pins[c]) = 0

\* ---- C11 ------------------------------------------------------------------
\* the ordering key of c is there and matches nothing: its value is null, or
\* a normalization function is configured and fails on it
NoMatchKey(c) ==
    /\ orderByData[c] # <<>>
    /\ \/ "SK_ISNULL" \in orderByData[c][1].sk_flags
       \/ normprocinfo /\ ~HnswNormOk(orderByData[c][1].sk_argument)

\* C11: with a null ordering value or a failed normalization every
\* hnswgettuple of the scan returns end-of-results, without an error, without
\* a search and without touching the pins, the result list or the graph.
C11_NoMatch ==
    [][\A c \in Cursors :
        (first[c] /\ NoMatchKey(c) /\ hnswgettuple(c)) =>
            /\ result'[c] = "false"
            /\ nsearch'[c] = nsearch[c] /\ nsearch[c] = 0
            /\ buf'[c] = buf[c] /\ pins'[c] = pins[c]
            /\ first'[c] /\ w'[c] = <<>>
            /\ heaptids' = heaptids]_vars

\* a scan whose query failed to normalize has returned end-of-results twice,
\* the pin of an earlier scan still held
C11_Witness ==
    \E c \in Cursors :
        /\ opaque[c] = "so" /\ first[c] /\ result[c] = "false" /\ eofs[c] >= 2
        /\ orderByData[c] # <<>> /\ orderByData[c][1].sk_flags = {}
        /\ normprocinfo /\ ~HnswNormOk(orderByData[c][1].sk_argument)
        /\ nsearch[c] = 0 /\ buf[c] # InvalidBuffer

\* ---- C12 ------------------------------------------------------------------
\* the ordering key of c is there and is a query to search for
SearchKey(c) == orderByData[c] # <<>> /\ ~NoMatchKey(c)

\* C12: on an empty graph the first hnswgettuple of a scan returns
\* end-of-results: SearchLayer is not invoked, no error is raised, the pins
\* are untouched, the result list is empty and the scan is marked started.
C12_EmptyGraph ==
    [][\A c \in Cursors :
        (first[c] /\ SearchKey(c) /\ entryPoint = NULL /\ hnswgettuple(c)) =>
            /\ result'[c] = "false"
            /\ calls'[c] = <<>> /\ nsearch'[c] = 1
            /\ buf'[c] = buf[c] /\ pins'[c] = pins[c] /\ Held(pins'[c]) = 0
            /\ w'[c] = <<>> /\ ~first'[c]]_vars

\* a started scan of the empty graph has returned end-of-results
C12_Witness ==
    \E c \in Cursors :
        /\ entryPoint = NULL /\ opaque[c] = "so" /\ ~first[c]
        /\ result[c] = "false" /\ nsearch[c] = 1 /\ calls[c] = <<>>
        /\ w[c] = <<>> /\ buf[c] = InvalidBuffer

\* ---- C13 ------------------------------------------------------------------
\* the heap tids the scan of c has returned for element e, in order
OutTidsOf(c, e) ==
    LET F[i \in 0..Len(out[c])] ==
            IF i = 0 THEN <<>>
            ELSE IF out[c][i].element = e THEN Append(F[i - 1], out[c][i].tid)
            ELSE F[i - 1]
    IN F[Len(out[c])]

\* C13: the records of one element come on consecutive calls, each heap tid
\* once, taken from the back of the element's list; the element stays at the
\* tail of the result list while it is served and is left only when its list
\* is empty, so an element found with k heap tids yields exactly k records.
C13_AllRecordsOfNode ==
    \A c \in Cursors :
        /\ \A i, j, k \in DOMAIN out[c] :
                (i < j /\ j < k /\ out[c][i].element = out[c][k].element)
                    => out[c][j].element = out[c][i].element
        /\ \A e \in OutNodes(c) :
            LET got == OutTidsOf(c, e)
                rest == Len(heaptids[e])
            IN /\ rest + Len(got) <= Len(tids0[e])
               /\ \A i \in DOMAIN got : got[i] = tids0[e][rest + Len(got) + 1 - i]
               /\ (e # Last(out[c]).element \/ eofs[c] > 0) => rest = 0
               /\ (opaque[c] = "so" /\ e = Last(out[c]).element /\ eofs[c] = 0)
                    => (w[c] # <<>> /\ Last(w[c]).element = e)

\* both records of an element were returned, then a record of another element
C13_Witness ==
    \E c \in Cursors : \E i \in DOMAIN out[c] :
        /\ i + 2 \in DOMAIN out[c]
        /\ out[c][i].element = out[c][i + 1].element
        /\ out[c][i].tid # out[c][i + 1].tid
        /\ out[c][i + 2].element # out[c][i].element
        /\ Len(tids0[out[c][i].element]) >= 2

\* ---- C14 ------------------------------------------------------------------
\* the result list a call of hnswgettuple on c works on: the list just
\* searched on the first call, so->w afterwards
ListAtCall(c) ==
    IF first[c] THEN GetScanItems(w[c], QueryValue(orderByData[c])) ELSE w[c]

\* C14: a call drops from the tail of the result list exactly candidates
\* whose element has no heap tid, returns nothing for them and goes on to the
\* next candidate: it returns a record of the first candidate from the tail
\* that has one, and end-of-results only with the result list empty.
C14_SkipEmpty ==
    [][\A c \in Cursors :
        ((~first[c] \/ SearchKey(c)) /\ hnswgettuple(c)) =>
            LET w1 == ListAtCall(c)
                kept == Len(w'[c])
            IN /\ kept <= Len(w1) /\ w'[c] = SubSeq(w1, 1, kept)
               /\ \A i \in (kept + 1)..Len(w1) :
                    /\ heaptids[w1[i].element] = <<>>
                    /\ heaptids'[w1[i].element] = <<>>
               /\ result'[c] \in {"true", "false"}
               /\ (result'[c] = "false") <=> (kept = 0)
               /\ result'[c] = "false" => out'[c] = out[c]
               /\ result'[c] = "true" =>
                    /\ heaptids[w1[kept].element] # <<>>
                    /\ Len(out'[c]) = Len(out[c]) + 1
                    /\ Last(out'[c]).element = w1[kept].element]_vars

\* the first call of a scan dropped a candidate without heap tids and
\* returned a record of the candidate before it
C14_Witness ==
    \E c \in Cursors :
        /\ result[c] = "true" /\ Len(out[c]) = 1 /\ nsearch[c] = 1
        /\ Len(w[c]) < Len(Last(calls[c]).w)
        /\ Last(out[c]).element = Last(w[c]).element

\* ---- C15 ------------------------------------------------------------------
\* C15: a Layer Search with ef = 1 on a non-empty seed frontier returns
\* exactly one candidate, no farther from the query than any member of the
\* seed frontier; hence in the descent of the Query Driver the frontier of
\* each layer is no farther from the query than the frontier of the layer
\* above it.
C15_SingleBest ==
    /\ (ls.pc = "done" /\ ls.ef = 1 /\ ls.ep # <<>>) =>
            /\ Len(ls.res) = 1
            /\ \A s \in Range(ls.ep) : ls.res[1].distance <= s.distance
            /\ ls.res = SearchLayer(ls.q, ls.ep, ls.ef, ls.lc)
    /\ \A q \in Queries :
            LET cs == ScanCalls(q)
            IN \A i \in DOMAIN cs :
                    cs[i].lc >= 1 =>
                        /\ Len(cs[i].w) = 1
                        /\ cs[i].w[1].distance <= cs[i].ep[1].distance
\* an ef = 1 search of two seeds that expanded a node and ended strictly
\* closer to the query than its best seed
C15_Witness ==
    /\ ls.pc = "done" /\ ls.ef = 1 /\ Len(ls.ep) = 2
    /\ ls.expanded # {}
    /\ ls.res[1].distance < ls.ep[1].distance

\* ---- C16 ------------------------------------------------------------------
\* C16: Layer Search ends on every graph, seed frontier and ef; no element is
\* expanded twice, an element of the visited set is never inserted into the
\* frontier or the candidate set again, the visited set never shrinks and
\* it grows on every expansion that finds an unvisited neighbor.
C16_NoRevisit ==
    /\ [][LayerExpand =>
            LET c == Closest(ls.st.C)
            IN /\ c.element \notin ls.expanded
               /\ ls.st.v \subseteq ls'.st.v
               /\ \A a \in (ls'.st.C \ ls.st.C) \cup (ls'.st.W \ ls.st.W) :
                        a.element \notin ls.st.v
               /\ (neighbors[c.element][ls.lc] \ ls.st.v # {}) =>
                        ls'.st.v # ls.st.v]_vars
    /\ (ls.pc = "run") ~> (ls.pc = "done")
\* a finished search that expanded two elements, visited elements beyond its
\* seeds, and met an already visited neighbor
C16_Witness ==
    /\ ls.pc = "done"
    /\ Cardinality(ls.expanded) >= 2
    /\ ls.st.v # {s.element : s \in Range(ls.ep)}
    /\ \E e \in ls.expanded : neighbors[e][ls.lc] \cap ls.expanded # {}

\* ---- C17 ------------------------------------------------------------------
\* C17: on a graph entered at level L the search of a scan invokes Layer
\* Search L + 1 times, on the layers L, L - 1, .., 0 in this order, with
\* ef = 1 above layer 0 and ef = hnsw_ef_search on layer 0; the first
\* invocation is seeded with the entry point's candidate alone, every later
\* one with the list the invocation before it returned.
C17_LayerOrder ==
    \A c \in Cursors :
        (opaque[c] = "so" /\ nsearch[c] = 1 /\ entryPoint # NULL) =>
            LET cs == calls[c]
                L == level[entryPoint]
            IN /\ Len(cs) = L + 1
               /\ \A i \in DOMAIN cs :
                    /\ cs[i].lc = L + 1 - i
                    /\ cs[i].ef = IF cs[i].lc >= 1 THEN 1 ELSE hnsw_ef_search
                    /\ i >= 2 => cs[i].ep = cs[i - 1].w
               /\ cs[1].ep =
                    <<EntryCandidate(entryPoint, QueryValue(orderByData[c]))>>
\* a search from an entry point of level 1 whose layer-1 invocation moved
\* away from the entry point, followed by a layer-0 invocation with ef > 1
C17_Witness ==
    \E c \in Cursors :
        /\ opaque[c] = "so" /\ nsearch[c] = 1 /\ entryPoint # NULL
        /\ Len(calls[c]) = 2
        /\ calls[c][1].w # calls[c][1].ep
        /\ calls[c][2].ef > 1

\* ---- C18 ------------------------------------------------------------------
\* C18: between two rescans the layered search runs at most once; it has run,
\* and left the scan marked started, before the first record of the scan is
\* returned; no later hnswgettuple call runs it again, the calls made after
\* the result list is drained included.
C18_SearchOnce ==
    \A c \in Cursors :
        /\ nsearch[c] <= 1
        /\ nsearch[c] = 1 => Len(calls[c]) = Len(ScanCalls(0))
        /\ (opaque[c] = "so" /\ out[c] # <<>>) => nsearch[c] = 1 /\ ~first[c]
        /\ (opaque[c] = "so" /\ eofs[c] > 0 /\ ~first[c]) => nsearch[c] = 1
\* a scan that returned a record, was drained, and was asked again after the
\* first end-of-results
C18_Witness ==
    \E c \in Cursors :
        /\ opaque[c] = "so" /\ ~first[c]
        /\ out[c] # <<>> /\ eofs[c] = MaxEofs /\ w[c] = <<>>
        /\ nsearch[c] = 1

\* ---- C19 ------------------------------------------------------------------
\* the element a heap tid belongs to
NodeOfTid(t) == ((t - 1) \div MaxTids) + 1

\* C19: an open scan that holds a pin holds exactly one, on the page of the
\* element whose record hnswgettuple returned last on this scan, also after
\* end-of-results and after a rescan that no delivery has followed yet; a scan
\* that has never returned a record holds no pin.
C19_PinOfLastRecord ==
    \A c \in Cursors :
        opaque[c] = "so" =>
            /\ xs_heaptid[c] = 0 =>
                    /\ buf[c] = InvalidBuffer
                    /\ \A b \in Blocks : pins[c].held[b] = 0
            /\ buf[c] # InvalidBuffer =>
                    /\ xs_heaptid[c] # 0
                    /\ buf[c] = blkno[NodeOfTid(xs_heaptid[c])]
                    /\ \A b \in Blocks :
                            pins[c].held[b] = IF b = buf[c] THEN 1 ELSE 0
            /\ out[c] # <<>> =>
                    /\ xs_heaptid[c] = Last(out[c]).tid
                    /\ buf[c] = blkno[Last(out[c]).element]
\* a scan that moved its pin from one page to another, was rescanned, and has
\* returned end-of-results since without delivering a record
C19_Witness ==
    \E c \in Cursors :
        /\ opaque[c] = "so" /\ priorUse[c]
        /\ out[c] = <<>> /\ result[c] = "false" /\ ~first[c]
        /\ buf[c] # InvalidBuffer
        /\ pins[c].acquired >= 2
        /\ pins[c].held[buf[c]] = 1

\* ---- C20 ------------------------------------------------------------------
\* the elements with a heap tid among the candidates of the list wl
LiveNodes(wl, tids) == {wl[i].element : i \in {j \in DOMAIN wl : tids[wl[j].element] # <<>>}}

\* the list the search of the scan of c returned, empty on an empty graph
SearchedList(c) == IF calls[c] = <<>> THEN <<>> ELSE Last(calls[c]).w

\* C20: once the search of a scan has run, the records returned so far and
\* the heap tids still held by the elements of the result list add up to the
\* heap tids the elements of the searched list held, so the calls return
\* exactly that many records and then end-of-results; a list with fewer
\* elements holding heap tids than hnsw_ef_search yields the records of those
\* elements alone, without an error and without a second search.
C20_Drains ==
    \A c \in Cursors :
        (opaque[c] = "so" /\ ~first[c]) =>
            /\ result[c] \in {"true", "false"}
            /\ nsearch[c] = 1
            /\ Len(out[c]) + TidCount(w[c], heaptids) = due[c]
            /\ result[c] = "false" => (w[c] = <<>> /\ Len(out[c]) = due[c])
            /\ (result[c] = "false" /\ ~priorUse[c]) =>
                    /\ OutNodes(c) = LiveNodes(SearchedList(c), tids0)
                    /\ \A e \in OutNodes(c) : Len(OutTidsOf(c, e)) = Len(tids0[e])
\* a drained scan whose searched list was full but had fewer elements with
\* heap tids than hnsw_ef_search, and which returned the records of those
C20_Witness ==
    \E c \in Cursors :
        /\ Exhausted(c) /\ ~priorUse[c] /\ eofs[c] = MaxEofs
        /\ Len(SearchedList(c)) = hnsw_ef_search
        /\ Cardinality(LiveNodes(SearchedList(c), tids0)) < hnsw_ef_search
        /\ out[c] # <<>> /\ Len(out[c]) = due[c]

====
